---------------------------- MODULE Spec2Model ----------------------------
(***************************************************************************)
(* Railway ticket office: the stored records (tickets/models.py), the      *)
(* generic repository (tickets/repositories.py) and the analytic reports   *)
(* of RepositoryManager.get_complex_analytics.                             *)
(*                                                                         *)
(* Money is kept in the store as an integer number of hundredths (the      *)
(* DecimalField(decimal_places=2) column); in memory it is a decimal.Decimal*)
(* modelled as coefficient and exponent, value = c * 10^e.                 *)
(***************************************************************************)
EXTENDS Integers, Sequences, FiniteSets, TLC

VARIABLES passengers, cashiers, trips, tickets, next_pk, requests, ret

vars == <<passengers, cashiers, trips, tickets, next_pk, requests, ret>>

store == <<passengers, cashiers, trips, tickets>>

(***************************************************************************)
(* Bounds of the exploration.                                              *)
(***************************************************************************)
\* ticket primary keys ever handed out by the store
MaxTickets == 2
\* largest age calculate_discount is applied to
MaxAge == 120
\* concurrent ticket-creation requests
MaxRequests == 2

\* the ages the stored passengers take
Ages == {10, 30, 70}
\* the fares the stored trips take
Prices == {100, 150}
TrainTypes == {"Intercity", "Regular"}
Capacities == {1, 2}

\* a null foreign key / SQL NULL (primary keys start at 1, sums are >= 0)
NULL == 0
NULLSUM == -1

(***************************************************************************)
(* decimal.Decimal                                                         *)
(***************************************************************************)
RECURSIVE Pow10(_)
Pow10(n) == IF n = 0 THEN 1 ELSE 10 * Pow10(n - 1)

Dec(c, e) == [c |-> c, e |-> e]

\* Python None in place of a Decimal (an unset base_price)
None == [c |-> -1, e |-> 0]

\* Decimal(int)
DecimalFromInt(n) == Dec(n, 0)

DecMul(a, b) == Dec(a.c * b.c, a.e + b.e)

DecAdd(a, b) ==
    LET e == IF a.e < b.e THEN a.e ELSE b.e
    IN  Dec(a.c * Pow10(a.e - e) + b.c * Pow10(b.e - e), e)

\* bool(x) of a Decimal or None
Truthy(x) == x # None /\ x.c # 0

\* the number of hundredths nearest to q/d, a tie going to the even one
\* (decimal.ROUND_HALF_EVEN, the default context's rounding)
DivHalfEven(q, d) ==
    LET f == q \div d
        r == q % d
    IN  IF 2 * r > d \/ (2 * r = d /\ f % 2 = 1) THEN f + 1 ELSE f

\* round(x, 2): Decimal.__round__ quantizes to exponent -2
Round2(x) ==
    IF x.e >= -2 THEN Dec(x.c * Pow10(x.e + 2), -2)
    ELSE Dec(DivHalfEven(x.c, Pow10(-2 - x.e)), -2)

\* a decimal(10,2) column read back from the store, and written to it
FromDb(cents) == Dec(cents, -2)
ToDb(x) == Round2(x).c

TAX == Dec(2, -1)


(***************************************************************************)
(* tickets/models.py                                                       *)
(***************************************************************************)
\* the rows of the ticket table that reference trip t (Trip.tickets)
Trip_tickets(t) == {k \in DOMAIN tickets : tickets[k].trip = t}

Trip_available_seats(t) ==
    LET sold_count == Cardinality(Trip_tickets(t))
    IN  trips[t].capacity - sold_count

calculate_discount_boundary_slip(age) ==
    IF age <= 18 THEN Dec(5, -1)
    ELSE IF age >= 60 THEN Dec(7, -1)
    ELSE Dec(10, -1)

\* the second definition of models.py, which replaces the first
calculate_discount(age) ==
    IF age < 18 THEN Dec(5, -1)
    ELSE IF age > 60 THEN Dec(7, -1)
    ELSE Dec(10, -1)

\* a Ticket instance as loaded from its row
Ticket_from_db(k) ==
    [pk          |-> k,
     passenger   |-> tickets[k].passenger,
     cashier     |-> tickets[k].cashier,
     trip        |-> tickets[k].trip,
     base_price  |-> FromDb(tickets[k].base_price),
     paid_amount |-> FromDb(tickets[k].paid_amount)]

\* Ticket(**kwargs): no primary key yet, paid_amount at its default
Ticket_new(p, c, t, bp) ==
    [pk |-> NULL, passenger |-> p, cashier |-> c, trip |-> t,
     base_price |-> bp, paid_amount |-> Dec(0, 0)]

\* the row written for an instance
Ticket_row(self) ==
    [passenger   |-> self.passenger,
     cashier     |-> self.cashier,
     trip        |-> self.trip,
     base_price  |-> ToDb(self.base_price),
     paid_amount |-> ToDb(self.paid_amount)]

Ticket_price_truncating(self) ==
    LET current_base == IF Truthy(self.base_price) THEN self.base_price
                        ELSE DecimalFromInt(trips[self.trip].price)
        discount == calculate_discount(passengers[self.passenger].age)
        raw_price == DecMul(DecMul(current_base, discount),
                            DecAdd(DecimalFromInt(1), TAX))
    IN  IF raw_price.e >= -2 THEN Round2(raw_price)
        ELSE Dec(raw_price.c \div Pow10(-2 - raw_price.e), -2)

Ticket_price(self) ==
    LET current_base == IF Truthy(self.base_price) THEN self.base_price
                        ELSE DecimalFromInt(trips[self.trip].price)
        discount == calculate_discount(passengers[self.passenger].age)
        raw_price == DecMul(DecMul(current_base, discount),
                            DecAdd(DecimalFromInt(1), TAX))
    IN  Round2(raw_price)

Ticket_clean_off_by_one(self) ==
    self.pk = NULL /\ Trip_available_seats(self.trip) < 0

\* TRUE when clean() raises ValidationError
Ticket_clean(self) ==
    self.pk = NULL /\ Trip_available_seats(self.trip) <= 0

\* Model.full_clean: the field checks of clean_fields, then clean(); every
\* failure is collected and raised as one ValidationError
Ticket_full_clean(self) ==
    (IF self.cashier = NULL THEN {"cashier: blank"} ELSE {})
    \cup (IF self.base_price.e < -2 THEN {"base_price: decimal places"} ELSE {})
    \cup (IF Ticket_clean(self) THEN {"no seats"} ELSE {})

Ticket_save_unset_only(self) ==
    LET s1 == IF self.base_price = None
              THEN [self EXCEPT !.base_price = DecimalFromInt(trips[self.trip].price)]
              ELSE self
        s2 == [s1 EXCEPT !.paid_amount = Ticket_price(s1)]
    IN  [obj |-> s2, errors |-> Ticket_full_clean(s2)]

\* Ticket.save up to the call of super().save(): the instance as it will be
\* written and the errors full_clean raises ({} when it passes)
Ticket_save(self) ==
    LET s1 == IF ~Truthy(self.base_price)
              THEN [self EXCEPT !.base_price = DecimalFromInt(trips[self.trip].price)]
              ELSE self
        s2 == [s1 EXCEPT !.paid_amount = Ticket_price(s1)]
    IN  [obj |-> s2, errors |-> Ticket_full_clean(s2)]

\* on_delete of the three foreign keys of Ticket
CASCADE(tk, field, pk) ==
    [k \in {j \in DOMAIN tk : tk[j][field] # pk} |-> tk[k]]

SET_NULL(tk, field, pk) ==
    [k \in DOMAIN tk |->
        IF tk[k][field] = pk THEN [tk[k] EXCEPT ![field] = NULL] ELSE tk[k]]

Ticket_passenger_on_delete(tk, pk) == CASCADE(tk, "passenger", pk)

Ticket_cashier_on_delete_cascading(tk, pk) == CASCADE(tk, "cashier", pk)

Ticket_cashier_on_delete(tk, pk) == SET_NULL(tk, "cashier", pk)

Ticket_trip_on_delete(tk, pk) == CASCADE(tk, "trip", pk)


(***************************************************************************)
(* tickets/repositories.py: BaseRepository over the four tables            *)
(***************************************************************************)
Repos == {"passengers", "cashiers", "trips", "tickets"}

\* the primary keys of a table
Table(repo) ==
    CASE repo = "passengers" -> DOMAIN passengers
      [] repo = "cashiers"   -> cashiers
      [] repo = "trips"      -> DOMAIN trips
      [] repo = "tickets"    -> DOMAIN tickets

\* the primary keys a caller may ask a repository for: every key the table
\* has held or may hold, and one it never holds
PassengerIds == {1, 2}
CashierIds == {1}
TripIds == {1, 2}
TicketIds == 1 .. MaxTickets
Asked(repo) ==
    CASE repo = "passengers" -> PassengerIds \cup {3}
      [] repo = "cashiers"   -> CashierIds \cup {2}
      [] repo = "trips"      -> TripIds \cup {3}
      [] repo = "tickets"    -> TicketIds \cup {MaxTickets + 1}

\* the last call and what it returned: for add, pk is the new row's key and
\* trip the trip the ticket was asked for
Ret(op, repo, pk, result, errors, rows, trip) ==
    [op |-> op, repo |-> repo, pk |-> pk, result |-> result,
     errors |-> errors, rows |-> rows, trip |-> trip, base_price |-> None]

\* the same for a call of tickets.add or tickets.update that reached
\* Ticket.save: bp is the instance's base_price when save() was entered
SaveRet(r, bp) == [r EXCEPT !.base_price = bp]

\* get_by_id: TRUE for the object, FALSE for None (DoesNotExist is caught)
get_by_id(repo, pk) == pk \in Table(repo)

\* for k, v in kwargs.items(): setattr(obj, k, v)
RECURSIVE SetAttrs(_, _)
SetAttrs(obj, kwargs) ==
    IF kwargs = <<>> THEN obj
    ELSE SetAttrs([obj EXCEPT ![Head(kwargs)[1]] = Head(kwargs)[2]], Tail(kwargs))

\* what a caller passes as base_price: nothing, 0, 33.33, 0.005
BasePriceInputs == {None, Dec(0, 0), Dec(3333, -2), Dec(5, -3)}

\* the keyword arguments of tickets.update that are modelled: none (a plain
\* re-save) or one field
TicketKwargs ==
    {<<>>}
    \cup {<< <<"trip", t>> >> : t \in DOMAIN trips}
    \cup {<< <<"passenger", p>> >> : p \in DOMAIN passengers}
    \cup {<< <<"cashier", c>> >> : c \in cashiers \cup {NULL}}
    \cup {<< <<"base_price", bp>> >> : bp \in BasePriceInputs}

\* the keyword arguments of trips.update that are modelled: one field
TripKwargs ==
    {<< <<"price", pr>> >> : pr \in Prices}
    \cup {<< <<"train_type", ty>> >> : ty \in TrainTypes}
    \cup {<< <<"capacity", n>> >> : n \in Capacities}

(***************************************************************************)
(* The operations, one request at a time                                   *)
(***************************************************************************)
\* repo.tickets.add(passenger=p, cashier=c, trip=t, base_price=bp):
\* Ticket.objects.create -> Ticket.save -> full_clean -> INSERT
TicketsAdd(p, c, t, bp) ==
    LET saved == Ticket_save(Ticket_new(p, c, t, bp))
    IN  /\ saved.errors # {} \/ next_pk <= MaxTickets
        /\ IF saved.errors = {}
           THEN /\ tickets' = (next_pk :> Ticket_row(saved.obj)) @@ tickets
                /\ next_pk' = next_pk + 1
                /\ ret' = SaveRet(Ret("add", "tickets", next_pk, "object", {},
                                      <<>>, t), bp)
           ELSE /\ UNCHANGED <<tickets, next_pk>>
                /\ ret' = SaveRet(Ret("add", "tickets", NULL, "ValidationError",
                                      saved.errors, <<>>, t), bp)
        /\ UNCHANGED <<passengers, cashiers, trips, requests>>

\* repo.tickets.update(pk, **kwargs)
TicketsUpdate(pk, kwargs) ==
    /\ IF ~get_by_id("tickets", pk)
       THEN /\ ret' = Ret("update", "tickets", pk, "None", {}, <<>>, NULL)
            /\ UNCHANGED tickets
       ELSE LET obj == SetAttrs(Ticket_from_db(pk), kwargs)
                saved == Ticket_save(obj)
            IN  IF saved.errors = {}
                THEN /\ tickets' = [tickets EXCEPT ![pk] = Ticket_row(saved.obj)]
                     /\ ret' = SaveRet(Ret("update", "tickets", pk, "object", {},
                                           <<>>, NULL), obj.base_price)
                ELSE /\ UNCHANGED tickets
                     /\ ret' = SaveRet(Ret("update", "tickets", pk, "ValidationError",
                                           saved.errors, <<>>, NULL), obj.base_price)
    /\ UNCHANGED <<passengers, cashiers, trips, next_pk, requests>>

\* repo.passengers.update(pk, age=age): Model.save, no full_clean
PassengersUpdate(pk, age) ==
    /\ IF ~get_by_id("passengers", pk)
       THEN /\ ret' = Ret("update", "passengers", pk, "None", {}, <<>>, NULL)
            /\ UNCHANGED passengers
       ELSE /\ passengers' = [passengers EXCEPT ![pk].age = age]
            /\ ret' = Ret("update", "passengers", pk, "object", {}, <<>>, NULL)
    /\ UNCHANGED <<cashiers, trips, tickets, next_pk, requests>>

\* repo.trips.update(pk, **kwargs): Model.save, no full_clean
TripsUpdate(pk, kwargs) ==
    /\ IF ~get_by_id("trips", pk)
       THEN /\ ret' = Ret("update", "trips", pk, "None", {}, <<>>, NULL)
            /\ UNCHANGED trips
       ELSE /\ trips' = [trips EXCEPT ![pk] = SetAttrs(trips[pk], kwargs)]
            /\ ret' = Ret("update", "trips", pk, "object", {}, <<>>, NULL)
    /\ UNCHANGED <<passengers, cashiers, tickets, next_pk, requests>>

\* obj.delete(): the row goes, and the on_delete rule of each foreign key
\* that points at it is applied to the tickets
Model_delete(repo, pk) ==
    CASE repo = "passengers" ->
           /\ passengers' = [q \in DOMAIN passengers \ {pk} |-> passengers[q]]
           /\ tickets' = Ticket_passenger_on_delete(tickets, pk)
           /\ UNCHANGED <<cashiers, trips>>
      [] repo = "cashiers" ->
           /\ cashiers' = cashiers \ {pk}
           /\ tickets' = Ticket_cashier_on_delete(tickets, pk)
           /\ UNCHANGED <<passengers, trips>>
      [] repo = "trips" ->
           /\ trips' = [q \in DOMAIN trips \ {pk} |-> trips[q]]
           /\ tickets' = Ticket_trip_on_delete(tickets, pk)
           /\ UNCHANGED <<passengers, cashiers>>
      [] repo = "tickets" ->
           /\ tickets' = [q \in DOMAIN tickets \ {pk} |-> tickets[q]]
           /\ UNCHANGED <<passengers, cashiers, trips>>

Delete_uncaught(repo, pk) ==
    /\ IF ~get_by_id(repo, pk)
       THEN /\ ret' = Ret("delete", repo, pk, "DoesNotExist", {}, <<>>, NULL)
            /\ UNCHANGED <<passengers, cashiers, trips, tickets>>
       ELSE /\ ret' = Ret("delete", repo, pk, "True", {}, <<>>, NULL)
            /\ Model_delete(repo, pk)
    /\ UNCHANGED <<next_pk, requests>>

\* repo.<repo>.delete(pk)
Delete(repo, pk) ==
    /\ IF ~get_by_id(repo, pk)
       THEN /\ ret' = Ret("delete", repo, pk, "False", {}, <<>>, NULL)
            /\ UNCHANGED <<passengers, cashiers, trips, tickets>>
       ELSE /\ ret' = Ret("delete", repo, pk, "True", {}, <<>>, NULL)
            /\ Model_delete(repo, pk)
    /\ UNCHANGED <<next_pk, requests>>

\* repo.<repo>.get_by_id(pk)
GetById(repo, pk) ==
    /\ ret' = Ret("get_by_id", repo, pk,
                  IF get_by_id(repo, pk) THEN "object" ELSE "None", {}, <<>>, NULL)
    /\ UNCHANGED <<passengers, cashiers, trips, tickets, next_pk, requests>>


(***************************************************************************)
(* RepositoryManager.get_complex_analytics                                 *)
(***************************************************************************)
\* parent LEFT OUTER JOIN ticket ON ticket.<field> = parent.id: one row per
\* matching ticket, and one row with a NULL ticket for a parent without any
InnerJoinTickets(parents, field) ==
    {r \in parents \X DOMAIN tickets : tickets[r[2]][field] = r[1]}

LeftJoinTickets(parents, field) ==
    InnerJoinTickets(parents, field)
    \cup {<<p, NULL>> : p \in {q \in parents :
                                 \A k \in DOMAIN tickets : tickets[k][field] # q}}

RECURSIVE SumPaid(_)
SumPaid(K) ==
    IF K = {} THEN 0
    ELSE LET k == CHOOSE x \in K : TRUE
         IN  tickets[k].paid_amount + SumPaid(K \ {k})

RECURSIVE SumAge(_)
SumAge(K) ==
    IF K = {} THEN 0
    ELSE LET k == CHOOSE x \in K : TRUE
         IN  passengers[tickets[k].passenger].age + SumAge(K \ {k})

\* the tickets of the joined rows of a group (NULL rows carry none)
JoinedTickets(rows) == {r[2] : r \in {x \in rows : x[2] # NULL}}

\* SQL SUM / MAX over the non-NULL values of a group: NULL when there is none
SqlSum(rows) ==
    IF JoinedTickets(rows) = {} THEN NULLSUM ELSE SumPaid(JoinedTickets(rows))

SqlMax(rows) ==
    IF JoinedTickets(rows) = {} THEN NULLSUM
    ELSE CHOOSE m \in {tickets[k].paid_amount : k \in JoinedTickets(rows)} :
            \A k \in JoinedTickets(rows) : tickets[k].paid_amount <= m

\* SQL AVG as the exact quotient <<sum, count>>; NULL when there is no value
SqlAvgAge(rows) ==
    IF JoinedTickets(rows) = {} THEN <<NULLSUM, 1>>
    ELSE <<SumAge(JoinedTickets(rows)), Cardinality(JoinedTickets(rows))>>

\* ORDER BY <field> DESC. SQL leaves the order of rows with equal keys to the
\* engine, and engines differ on where NULL sorts: every order it allows
DescOK(a, b, nulls_first) ==
    IF a = NULLSUM THEN nulls_first \/ b = NULLSUM
    ELSE IF b = NULLSUM THEN ~nulls_first
    ELSE a >= b

Arrangements(R) ==
    {s \in [1 .. Cardinality(R) -> R] :
        \A i, j \in 1 .. Cardinality(R) : i # j => s[i] # s[j]}

OrderByDesc(R, field) ==
    {s \in Arrangements(R) :
        \E nulls_first \in BOOLEAN :
            \A i \in 1 .. Cardinality(R) - 1 :
                DescOK(s[i][field], s[i + 1][field], nulls_first)}

\* lexicographic order of the train types
TypeRank(ty) == IF ty = "Intercity" THEN 1 ELSE 2

OrderByTrainType(R) ==
    {s \in Arrangements(R) :
        \A i \in 1 .. Cardinality(R) - 1 :
            TypeRank(s[i].train_type) <= TypeRank(s[i + 1].train_type)}

revenue_by_trip_inner_join ==
    LET joined == InnerJoinTickets(DOMAIN trips, "trip")
        rows == {[id |-> t,
                  total_revenue |-> SqlSum({r \in joined : r[1] = t}),
                  tickets_sold  |-> Cardinality(JoinedTickets({r \in joined : r[1] = t}))]
                 : t \in {r[1] : r \in joined}}
    IN  OrderByDesc(rows, "total_revenue")

\* Trip.objects.annotate(Sum('tickets__paid_amount'), Count('tickets'))
\*     .order_by('-total_revenue'): the row sequences the query may return
revenue_by_trip ==
    LET joined == LeftJoinTickets(DOMAIN trips, "trip")
        rows == {[id |-> t,
                  total_revenue |-> SqlSum({r \in joined : r[1] = t}),
                  tickets_sold  |-> Cardinality(JoinedTickets({r \in joined : r[1] = t}))]
                 : t \in {r[1] : r \in joined}}
    IN  OrderByDesc(rows, "total_revenue")

\* trip_occupancy: sold_count = Count('tickets') and
\* occupancy_rate = F('sold_count') * 100.0 / F('capacity'), kept as the
\* exact fraction num / den
occupancy_rate(t) ==
    [num |-> Cardinality(Trip_tickets(t)) * 100, den |-> trips[t].capacity]

\* Trip.objects.values('train_type').annotate(Avg('tickets__passenger__age'),
\*     Max('tickets__paid_amount'), Count('id')).order_by('train_type'):
\* GROUP BY train_type over the joined rows; COUNT(trip.id) counts those rows
train_type_stats ==
    LET joined == LeftJoinTickets(DOMAIN trips, "trip")
        group(ty) == {r \in joined : trips[r[1]].train_type = ty}
        rows == {[train_type |-> ty,
                  avg_passenger_age |-> SqlAvgAge(group(ty)),
                  max_ticket_price  |-> SqlMax(group(ty)),
                  trips_count       |-> Cardinality(group(ty))]
                 : ty \in {trips[r[1]].train_type : r \in joined}}
    IN  OrderByTrainType(rows)

\* the slice [:10]
TOP_LIMIT == 10

Limit(s, n) == SubSeq(s, 1, IF Len(s) < n THEN Len(s) ELSE n)

\* Passenger.objects.annotate(Sum('tickets__paid_amount'), Count('tickets'))
\*     .filter(total_spent__isnull=False).order_by('-total_spent')[:10]
top_passengers ==
    LET joined == LeftJoinTickets(DOMAIN passengers, "passenger")
        rows == {[id |-> p,
                  total_spent |-> SqlSum({r \in joined : r[1] = p}),
                  trips_count |-> Cardinality(JoinedTickets({r \in joined : r[1] = p}))]
                 : p \in {r[1] : r \in joined}}
        having == {r \in rows : r.total_spent # NULLSUM}
    IN  {Limit(s, TOP_LIMIT) : s \in OrderByDesc(having, "total_spent")}

\* one evaluation of a report of the dashboard
Report(name) ==
    /\ \E rows \in CASE name = "revenue_by_trip"  -> revenue_by_trip
                     [] name = "train_type_stats" -> train_type_stats
                     [] name = "top_passengers"   -> top_passengers :
          ret' = Ret("report", name, NULL, "rows", {}, rows, NULL)
    /\ UNCHANGED <<passengers, cashiers, trips, tickets, next_pk, requests>>

Reports == {"revenue_by_trip", "train_type_stats", "top_passengers"}


(***************************************************************************)
(* Two ticket sales in flight at once. Ticket.save runs full_clean (whose  *)
(* clean() counts the trip's tickets) and then super().save() (the INSERT) *)
(* as two statements against the store, in no transaction and under no     *)
(* lock, so statements of other requests may run between them.             *)
(***************************************************************************)
Requests == 1 .. MaxRequests

Idle == [pc |-> "idle", obj |-> Ticket_new(NULL, NULL, NULL, None)]

\* Ticket.save of request r up to and including full_clean
CreateValidate(r, p, c, t, bp) ==
    LET saved == Ticket_save(Ticket_new(p, c, t, bp))
    IN  /\ requests[r].pc = "idle"
        /\ IF saved.errors = {}
           THEN /\ requests' = [requests EXCEPT ![r] = [pc |-> "validated", obj |-> saved.obj]]
                /\ UNCHANGED ret
           ELSE /\ requests' = [requests EXCEPT ![r].pc = "failed"]
                /\ ret' = Ret("add", "tickets", NULL, "ValidationError",
                              saved.errors, <<>>, t)
        /\ UNCHANGED <<passengers, cashiers, trips, tickets, next_pk>>

\* super().save() of request r: the INSERT
CreateInsert(r) ==
    /\ requests[r].pc = "validated"
    /\ next_pk <= MaxTickets
    /\ tickets' = (next_pk :> Ticket_row(requests[r].obj)) @@ tickets
    /\ next_pk' = next_pk + 1
    /\ requests' = [requests EXCEPT ![r].pc = "done"]
    /\ ret' = Ret("add", "tickets", next_pk, "object", {}, <<>>, requests[r].obj.trip)
    /\ UNCHANGED <<passengers, cashiers, trips>>

(***************************************************************************)
(* Ticket.calculate_discount called on its own                             *)
(***************************************************************************)
CalculateDiscount(age) ==
    /\ ret' = Ret("calculate_discount", "tickets", age, "Decimal", {},
                  <<calculate_discount(age)>>, NULL)
    /\ UNCHANGED <<passengers, cashiers, trips, tickets, next_pk, requests>>

(***************************************************************************)
(* Specifications                                                          *)
(***************************************************************************)
\* a populated office with no ticket sold yet: two passengers, one cashier,
\* a one-seat trip and a two-seat trip
Init ==
    /\ \E a \in Ages : passengers = (1 :> [age |-> a]) @@ (2 :> [age |-> 30])
    /\ cashiers = CashierIds
    /\ \E pr \in Prices :
          trips = (1 :> [price |-> pr, capacity |-> 1, train_type |-> "Intercity"])
               @@ (2 :> [price |-> 100, capacity |-> 2, train_type |-> "Regular"])
    /\ tickets = <<>>
    /\ next_pk = 1
    /\ requests = [r \in Requests |-> Idle]
    /\ ret = Ret("init", "tickets", NULL, "None", {}, <<>>, NULL)

\* every operation, one request at a time
Next ==
    \/ \E p \in DOMAIN passengers, c \in cashiers \cup {NULL},
          t \in DOMAIN trips, bp \in BasePriceInputs : TicketsAdd(p, c, t, bp)
    \/ \E pk \in Asked("tickets"), kwargs \in TicketKwargs : TicketsUpdate(pk, kwargs)
    \/ \E pk \in Asked("passengers"), age \in Ages : PassengersUpdate(pk, age)
    \/ \E pk \in Asked("trips"), kwargs \in TripKwargs : TripsUpdate(pk, kwargs)
    \/ \E repo \in Repos : \E pk \in Asked(repo) : Delete(repo, pk)
    \/ \E repo \in Repos : \E pk \in Asked(repo) : GetById(repo, pk)
    \/ \E name \in Reports : Report(name)

Spec == Init /\ [][Next]_vars

\* The state space of Spec is too large to enumerate; each specification
\* below keeps the operations one group of properties is about. Every step
\* of NextCreate, NextSales, NextDeletes, NextRepository and NextReports is
\* a step of Next.

\* selling tickets and returning them
NextCreate ==
    \/ \E p \in DOMAIN passengers, c \in cashiers \cup {NULL},
          t \in DOMAIN trips, bp \in BasePriceInputs : TicketsAdd(p, c, t, bp)
    \/ \E pk \in Asked("tickets") : Delete("tickets", pk)

SpecCreate == Init /\ [][NextCreate]_vars

\* the life of sold tickets: the passenger's age and the fare are edited and
\* the tickets are saved again
NextSales ==
    \/ \E p \in DOMAIN passengers \cap {1}, c \in cashiers, t \in DOMAIN trips,
          bp \in {None, Dec(3333, -2)} : TicketsAdd(p, c, t, bp)
    \/ \E pk \in DOMAIN tickets : TicketsUpdate(pk, <<>>)
    \/ \E age \in Ages : PassengersUpdate(1, age)
    \/ \E pk \in DOMAIN trips, price \in Prices :
          TripsUpdate(pk, << <<"price", price>> >>)

SpecSales == Init /\ [][NextSales]_vars

\* deleting passengers, cashiers and trips that have tickets
NextDeletes ==
    \/ \E p \in DOMAIN passengers, c \in cashiers, t \in DOMAIN trips :
          TicketsAdd(p, c, t, None)
    \/ \E repo \in {"passengers", "cashiers", "trips"} :
          \E pk \in Table(repo) : Delete(repo, pk)

SpecDeletes == Init /\ [][NextDeletes]_vars

\* the repository asked for keys it holds and keys it does not hold
NextRepository ==
    \/ \E p \in DOMAIN passengers \cap {1}, c \in cashiers, t \in DOMAIN trips :
          TicketsAdd(p, c, t, None)
    \/ \E pk \in Asked("tickets") : TicketsUpdate(pk, <<>>)
    \/ \E pk \in Asked("passengers") : PassengersUpdate(pk, 30)
    \/ \E pk \in Asked("trips") : TripsUpdate(pk, << <<"price", 100>> >>)
    \/ \E repo \in Repos : \E pk \in Asked(repo) : Delete(repo, pk)
    \/ \E repo \in Repos : \E pk \in Asked(repo) : GetById(repo, pk)

SpecRepository == Init /\ [][NextRepository]_vars

\* the dashboard's reports over the tickets sold so far
NextReports ==
    \/ \E p \in DOMAIN passengers, t \in DOMAIN trips, c \in cashiers,
          bp \in {None, Dec(3333, -2)} : TicketsAdd(p, c, t, bp)
    \/ \E pk \in DOMAIN trips, ty \in TrainTypes :
          TripsUpdate(pk, << <<"train_type", ty>> >>)
    \/ \E name \in Reports : Report(name)

SpecReports == Init /\ [][NextReports]_vars

\* seats: tickets are sold, moved to another trip and returned, a trip's
\* capacity is edited, and passengers, cashiers and trips are deleted
NextSeats ==
    \/ \E p \in DOMAIN passengers, c \in cashiers, t \in DOMAIN trips :
          TicketsAdd(p, c, t, None)
    \/ \E pk \in DOMAIN tickets, t \in DOMAIN trips :
          TicketsUpdate(pk, << <<"trip", t>> >>)
    \/ \E pk \in DOMAIN trips, n \in Capacities :
          TripsUpdate(pk, << <<"capacity", n>> >>)
    \/ \E repo \in Repos : \E pk \in Table(repo) : Delete(repo, pk)

SpecSeats == Init /\ [][NextSeats]_vars

\* base prices: tickets are sold with and without a base price, a sold
\* ticket's base price is edited, and the fares of the trips are edited
NextFares ==
    \/ \E p \in DOMAIN passengers \cap {1}, c \in cashiers, t \in DOMAIN trips,
          bp \in BasePriceInputs : TicketsAdd(p, c, t, bp)
    \/ \E pk \in DOMAIN tickets, bp \in BasePriceInputs :
          TicketsUpdate(pk, << <<"base_price", bp>> >>)
    \/ \E pk \in DOMAIN trips, price \in Prices :
          TripsUpdate(pk, << <<"price", price>> >>)

SpecFares == Init /\ [][NextFares]_vars

NextConcurrent ==
    \/ \E r \in Requests, p \in DOMAIN passengers, c \in cashiers \cup {NULL},
          t \in DOMAIN trips, bp \in BasePriceInputs : CreateValidate(r, p, c, t, bp)
    \/ \E r \in Requests : CreateInsert(r)

SpecConcurrent == Init /\ [][NextConcurrent]_vars

NextDiscount == \E age \in 0 .. MaxAge : CalculateDiscount(age)

SpecDiscount == Init /\ [][NextDiscount]_vars

(***************************************************************************)
(* Properties                                                              *)
(***************************************************************************)
\* C1: creating a ticket for a trip whose available_seats is <= 0 fails with
\* the no-seats error and leaves the stored tickets as they were; for a trip
\* with a free seat the no-seats error is not raised and a sale that passes
\* validation stores exactly one new ticket for that trip (so on the one-seat
\* trip the first sale succeeds and the next one, with nothing deleted in
\* between, fails).
NoSeatsRefused ==
    [][ret'.op = "add" =>
          IF Trip_available_seats(ret'.trip) <= 0
          THEN /\ ret'.result = "ValidationError"
               /\ "no seats" \in ret'.errors
               /\ tickets' = tickets
               /\ next_pk' = next_pk
          ELSE /\ "no seats" \notin ret'.errors
               /\ (ret'.result = "object") = (ret'.errors = {})
               /\ ret'.result = "object" =>
                     /\ DOMAIN tickets' = DOMAIN tickets \cup {ret'.pk}
                     /\ ret'.pk \notin DOMAIN tickets
                     /\ tickets'[ret'.pk].trip = ret'.trip
                     /\ \A k \in DOMAIN tickets : tickets'[k] = tickets[k]
               /\ ret'.result # "object" => tickets' = tickets]_vars

\* the second sale on the one-seat trip was refused while the first ticket
\* is still there
SecondSaleRefused ==
    /\ ret.op = "add"
    /\ ret.trip = 1
    /\ "no seats" \in ret.errors
    /\ trips[1].capacity = 1
    /\ Cardinality(Trip_tickets(1)) = 1

\* C2: with ticket sales in flight at once, a trip never holds more tickets
\* than its capacity (two sales for the last seat do not both succeed).
NoOversellUnderConcurrency ==
    \A t \in DOMAIN trips : Cardinality(Trip_tickets(t)) <= trips[t].capacity

\* C3: the paid_amount stored on a ticket never changes after creation,
\* whatever is edited and saved afterwards.
PaidAmountFrozen ==
    [][\A k \in DOMAIN tickets \cap DOMAIN tickets' :
          tickets'[k].paid_amount = tickets[k].paid_amount]_vars

\* the discount in tenths, as the specification tabulates it
TierTenths(age) ==
    IF age \in 0 .. 17 THEN 5 ELSE IF age \in 18 .. 60 THEN 10 ELSE 7

\* C4: a ticket just created stores paid_amount = base_price x discount(age)
\* x 1.2 rounded to hundredths, exactly: it is the number of hundredths
\* nearest to the exact product, an exact tie going to the even one; the base
\* is the supplied base price or the trip's fare; base 100 gives 60.00 at age
\* 10, 84.00 at age 70 and 120.00 at age 30.
PaidAmountExact ==
    (ret.op = "add" /\ ret.result = "object") =>
        LET row == tickets[ret.pk]
            age == passengers[row.passenger].age
            \* the exact product, in ten-thousandths
            exact == row.base_price * TierTenths(age) * 12
            diff == 100 * row.paid_amount - exact
        IN  /\ diff \in -50 .. 50
            /\ (diff = 50 \/ diff = -50) => row.paid_amount % 2 = 0
            /\ row.base_price \in {100 * trips[row.trip].price}
                                  \cup {ToDb(bp) : bp \in {b \in BasePriceInputs : Truthy(b)}}
            /\ (row.base_price = 10000 /\ age = 10) => row.paid_amount = 6000
            /\ (row.base_price = 10000 /\ age = 70) => row.paid_amount = 8400
            /\ (row.base_price = 10000 /\ age = 30) => row.paid_amount = 12000

\* a ticket sold at the supplied base price 33.33 to a passenger aged 70:
\* 33.33 x 0.7 x 1.2 = 27.9972, stored as 28.00
RoundedSaleStored ==
    /\ ret.op = "add"
    /\ ret.result = "object"
    /\ tickets[ret.pk].base_price = 3333
    /\ passengers[tickets[ret.pk].passenger].age = 70
    /\ tickets[ret.pk].paid_amount = 2800

\* C5: calculate_discount returns 0.5 for the ages 0..17, 1.0 for 18..60 and
\* 0.7 from 61 on, and nothing else.
DiscountTiers ==
    ret.op = "calculate_discount" =>
        LET age == ret.pk
            d == ret.rows[1]
        IN  /\ age \in 0 .. 17 => d = Dec(5, -1)
            /\ age \in 18 .. 60 => d = Dec(10, -1)
            /\ age >= 61 => d = Dec(7, -1)
            /\ d \in {Dec(5, -1), Dec(10, -1), Dec(7, -1)}

\* the full fare at the boundary age 18
DiscountAtEighteen ==
    /\ ret.op = "calculate_discount"
    /\ ret.pk = 18
    /\ ret.rows[1] = Dec(10, -1)

\* C6: deleting a cashier keeps every ticket, changes nothing in them but
\* the cashier reference of the tickets that cashier sold, which becomes
\* null; deleting a passenger removes exactly that passenger's tickets and
\* leaves the others as they were.
DeleteRules ==
    [][(ret'.op = "delete" /\ ret'.result = "True") =>
          /\ ret'.repo = "cashiers" =>
                /\ DOMAIN tickets' = DOMAIN tickets
                /\ \A k \in DOMAIN tickets :
                      tickets'[k] = IF tickets[k].cashier = ret'.pk
                                    THEN [tickets[k] EXCEPT !.cashier = NULL]
                                    ELSE tickets[k]
          /\ ret'.repo = "passengers" =>
                /\ DOMAIN tickets' =
                      {k \in DOMAIN tickets : tickets[k].passenger # ret'.pk}
                /\ \A k \in DOMAIN tickets' : tickets'[k] = tickets[k]]_vars

\* a passenger was deleted with their ticket; the other passenger's ticket
\* is still there, sold by a cashier who was deleted before
TicketOutlivesCashier ==
    /\ ret.op = "delete"
    /\ ret.repo = "passengers"
    /\ ret.result = "True"
    /\ next_pk = 3
    /\ Cardinality(DOMAIN tickets) = 1
    /\ \A k \in DOMAIN tickets : tickets[k].cashier = NULL
    /\ cashiers = {}

\* C7: the revenue-by-trip report lists every trip exactly once, with the
\* sum of paid_amount over exactly the tickets of that trip and their count;
\* a trip without tickets is listed with a null sum and the count 0.
RevenueByTripRows ==
    (ret.op = "report" /\ ret.repo = "revenue_by_trip") =>
        /\ Len(ret.rows) = Cardinality(DOMAIN trips)
        /\ {ret.rows[i].id : i \in 1 .. Len(ret.rows)} = DOMAIN trips
        /\ \A i \in 1 .. Len(ret.rows) :
              LET mine == {k \in DOMAIN tickets : tickets[k].trip = ret.rows[i].id}
              IN  /\ ret.rows[i].tickets_sold = Cardinality(mine)
                  /\ ret.rows[i].total_revenue =
                        IF mine = {} THEN NULLSUM ELSE SumPaid(mine)

\* the report over a trip with two tickets and a trip with none
RevenueWithEmptyTrip ==
    /\ ret.op = "report"
    /\ ret.repo = "revenue_by_trip"
    /\ \E i, j \in 1 .. Len(ret.rows) :
          /\ ret.rows[i].tickets_sold = 2
          /\ ret.rows[i].total_revenue > 0
          /\ ret.rows[j].tickets_sold = 0
          /\ ret.rows[j].total_revenue = NULLSUM

\* C8: the train-type report has one row per distinct train_type and its
\* trips_count is the number of trips of that type, however many tickets
\* those trips have.
TrainTypeTripsCount ==
    (ret.op = "report" /\ ret.repo = "train_type_stats") =>
        /\ Len(ret.rows) = Cardinality({trips[t].train_type : t \in DOMAIN trips})
        /\ {ret.rows[i].train_type : i \in 1 .. Len(ret.rows)} =
              {trips[t].train_type : t \in DOMAIN trips}
        /\ \A i \in 1 .. Len(ret.rows) :
              ret.rows[i].trips_count = Cardinality(
                  {t \in DOMAIN trips : trips[t].train_type = ret.rows[i].train_type})

\* C9: the top-passengers report lists only passengers with a ticket, has at
\* most 10 rows, is sorted by total_spent descending, and two evaluations
\* over the same stored state return the same sequence.
TopPassengersDeterministic ==
    [][(ret'.op = "report" /\ ret'.repo = "top_passengers") =>
          /\ Len(ret'.rows) <= 10
          /\ \A i \in 1 .. Len(ret'.rows) :
                \E k \in DOMAIN tickets : tickets[k].passenger = ret'.rows[i].id
          /\ \A i \in 1 .. Len(ret'.rows) - 1 :
                ret'.rows[i].total_spent >= ret'.rows[i + 1].total_spent
          /\ (ret.op = "report" /\ ret.repo = "top_passengers") =>
                ret'.rows = ret.rows]_vars

\* C10: get_by_id, update and delete of a key the table does not hold return
\* None, None and False and change no stored record; delete of a key it
\* holds returns True and the row is gone (so deleting it again returns
\* False).
MissingKeySignalled ==
    [][\A repo \in Repos :
          (ret'.op \in {"get_by_id", "update", "delete"} /\ ret'.repo = repo) =>
              IF ret'.pk \notin Table(repo)
              THEN /\ ret'.result = (IF ret'.op = "delete" THEN "False" ELSE "None")
                   /\ store' = store
              ELSE /\ ret'.result # "None"
                   /\ ret'.op = "delete" =>
                         /\ ret'.result = "True"
                         /\ ret'.pk \notin Table(repo)']_vars

\* a ticket that was sold and deleted is deleted a second time
SecondDeleteFalse ==
    /\ ret.op = "delete"
    /\ ret.repo = "tickets"
    /\ ret.result = "False"
    /\ ret.pk < next_pk
    /\ ret.pk \notin DOMAIN tickets


\* C11: in every state reached by selling, moving (trip change) and returning
\* tickets, editing a trip's capacity and deleting passengers, cashiers and
\* trips, no trip has more tickets than its capacity: available_seats >= 0
\* and the occupancy rate lies in [0, 100].
SeatsWithinCapacity ==
    \A t \in DOMAIN trips :
        /\ Trip_available_seats(t) >= 0
        /\ occupancy_rate(t).num >= 0
        /\ occupancy_rate(t).num <= 100 * occupancy_rate(t).den


\* C12: a ticket saved (created or updated) with base_price unset or equal
\* to 0 is stored with base_price = the current price of its trip and
\* paid_amount computed from that fare; saved with a non-zero base_price it
\* is stored with that base_price as given and paid_amount computed from it,
\* whatever the trip's price is.
BasePriceDefaulted ==
    (ret.repo = "tickets" /\ ret.op \in {"add", "update"} /\ ret.result = "object") =>
        LET row == tickets[ret.pk]
            given == ret.base_price
            fare == 100 * trips[row.trip].price
            base == IF given = None \/ given.c = 0 THEN fare
                    ELSE given.c * Pow10(given.e + 2)
            exact == base * TierTenths(passengers[row.passenger].age) * 12
            diff == 100 * row.paid_amount - exact
        IN  /\ row.base_price = base
            /\ diff \in -50 .. 50

\* a ticket saved with base_price 0 on trip 2 after that trip's fare was
\* edited from 100 to 150: it is stored with base_price 150.00
ZeroBasePriceSaved ==
    /\ ret.repo = "tickets" /\ ret.result = "object"
    /\ ret.base_price = Dec(0, 0)
    /\ tickets[ret.pk].base_price = 15000
    /\ tickets[ret.pk].trip = 2

=============================================================================
